---- MODULE Spec2Model ----
(***************************************************************************)
(* A model of the analytics engine of ideeza_analytics_api:                *)
(*   - the pre-aggregation command  precalculate_stats  (Command.handle),  *)
(*   - the query service  AnalyticsService  with its result cache,         *)
(*   - the stores they share: BlogView events, DailyAnalyticsSummary rows, *)
(*     the cache (lock key and cached results) and the HLL keys in Redis.  *)
(*                                                                         *)
(* Four specifications share the variables:                                *)
(*   SpecJob    the command step by step, one step per database or cache   *)
(*              call, for several concurrent runs;                         *)
(*   SpecBatch  the command as one operation, with ingestion and operator  *)
(*              deletions between runs;                                    *)
(*   SpecQuery  the live and the fast grouped query with the result cache, *)
(*              IDEEZA_USE_HLL off;                                        *)
(*   SpecHll    the fast grouped query with IDEEZA_USE_HLL on.             *)
(* resp records the last operation and what it returned.                   *)
(***************************************************************************)
EXTENDS Integers, Sequences, FiniteSets, TLC

(***************************************************************************)
(* Bounds of the model.                                                    *)
(***************************************************************************)
MaxTs == 2          \* timestamps are 0..MaxTs
TicksPerDay == 2    \* timestamps per calendar day
MaxBlog == 2        \* blog ids are 1..MaxBlog
MaxEvents == 2      \* BlogView rows ever ingested
NumRuns == 2        \* concurrent invocations of the command
MaxDaysOpt == 1     \* values of the --days option are 0..MaxDaysOpt (0: not given)
DaysPerYear == 1    \* calendar days per year
MaxCache == 1       \* entries the cache backend holds
MaxViews == 3       \* small view counts of a period are 0..MaxViews
MaxPeriods == 3     \* periods in the raw_data of the growth calculation
MaxTopBlogs == 11   \* blogs with views in the tables of the top query

NULL == "null"

Codes == {"US"}
Countries == Codes \cup {NULL}
Blogs == 1..MaxBlog
Timestamps == 0..MaxTs
Runs == 1..NumRuns

\* Blog.author: every blog has an author (models.py, non-null foreign key).
AuthorOf(b) == IF b <= 2 THEN "alice" ELSE "bob"

\* timestamp__date / TruncDate / datetime.date(): the calendar day of a timestamp.
DateOf(ts) == ts \div TicksPerDay

\* timezone.now().date()
Today == DateOf(MaxTs)

VARIABLES
    events,      \* BlogView rows: [blog, country, ts, k], k numbering equal views
    summaries,   \* DailyAnalyticsSummary rows
    lock,        \* TRUE iff the cache holds the key precalculate_stats_lock
    advisory,    \* the run holding pg advisory lock 1234567890, or 0
    cacheUp,     \* the cache backend answers
    postgres,    \* the database engine is postgresql
    useHLL,      \* settings.IDEEZA_USE_HLL
    redisUp,     \* get_redis_connection() gives a client
    hll,         \* HLL keys in Redis: key -> members added
    run,         \* SpecJob: the local state of each run of the command
    cache,       \* cached query results: key -> data
    ask,         \* SpecQuery: the object_type and filters the client queries with
    resp         \* the last operation and what it returned

vars == <<events, summaries, lock, advisory, cacheUp, postgres, useHLL,
          redisUp, hll, run, cache, ask, resp>>

(***************************************************************************)
(* BlogView and DailyAnalyticsSummary.                                     *)
(***************************************************************************)
EventTypes == [blog : Blogs, country : Countries, ts : Timestamps]

Copies(evs, t) == {e \in evs : e.blog = t.blog /\ e.country = t.country /\ e.ts = t.ts}

\* BlogView.objects.create: one more row, equal rows told apart by k (the pk).
NewEvent(evs, t) ==
    [blog |-> t.blog, country |-> t.country, ts |-> t.ts,
     k |-> Cardinality(Copies(evs, t)) + 1]

\* The grouping key (view_date, country, blog__author) of an event.
KeyOf(e) == <<DateOf(e.ts), e.country, AuthorOf(e.blog)>>

\* The key (date, country_id, author_id) of a summary row.
RowKey(s) == <<s.date, s.country, s.author>>

\* BlogView.objects.filter(timestamp__date__gte=start_date)
InRange(evs, D) == {e \in evs : DateOf(e.ts) >= D}

\* order_by("timestamp").first(): the date of the earliest event.
EarliestDate(evs) ==
    DateOf((CHOOSE e \in evs : \A x \in evs : e.ts <= x.ts).ts)

\* The lower bound of the run: today - days, or the earliest event's date.
StartDateAt(today, evs, days) ==
    IF days # 0 THEN today - days ELSE EarliestDate(evs)

\* start_date of a run on the day of the last instant.
StartDate(evs, days) == StartDateAt(Today, evs, days)

\* values(view_date, country, blog__author)
\*   .annotate(total_views=Count("id"), unique_blogs=Count("blog", distinct=True))
Aggregated(evs, D) ==
    LET rng == InRange(evs, D)
        grp(k) == {e \in rng : KeyOf(e) = k}
    IN  { [view_date |-> k[1], country |-> k[2], author |-> k[3],
           total_views |-> Cardinality(grp(k)),
           unique_blogs |-> Cardinality({e.blog : e \in grp(k)})]
          : k \in {KeyOf(e) : e \in rng} }

\* blog_ids_map: (view_date, country, author) -> set of blog ids
BlogIdsMap(evs, D) ==
    LET rng == InRange(evs, D)
    IN  [k \in {KeyOf(e) : e \in rng} |-> {e.blog : e \in {x \in rng : KeyOf(x) = k}}]

\* existing_map: one instance per key among the rows dated >= start_date; which
\* of two rows with one key the dict keeps depends on the order the rows come in.
ExistingMaps(sums, D) ==
    LET ex == {s \in sums : s.date >= D}
        keys == {RowKey(s) : s \in ex}
    IN  IF \A s1, s2 \in ex : RowKey(s1) = RowKey(s2) => s1 = s2
        THEN {[k \in keys |-> CHOOSE s \in ex : RowKey(s) = k]}
        ELSE {m \in [keys -> ex] : \A k \in keys : RowKey(m[k]) = k}

AggKey(row) == <<row.view_date, row.country, row.author>>

\* blog_ids = list(blog_ids_map.get(key, []))
BlogIdsFor(bmap, key) == IF key \in DOMAIN bmap THEN bmap[key] ELSE {}

\* A variant of the update list that leaves the stored counts and ids alone.
StaleUpdates(agg, bmap, emap) ==
    { emap[AggKey(row)] : row \in {a \in agg : AggKey(a) \in DOMAIN emap} }

\* A variant of the create list that ignores existing_map: insert every group.
CreateEveryGroup(agg, bmap, emap) ==
    { [date |-> row.view_date, country |-> row.country, author |-> row.author,
       total_views |-> row.total_views, unique_blogs |-> row.unique_blogs,
       blog_ids |-> BlogIdsFor(bmap, AggKey(row))]
      : row \in agg }

\* summaries_to_update: the existing instances with the new counts and ids.
BuildUpdates(agg, bmap, emap) ==
    { [emap[AggKey(row)] EXCEPT !.total_views = row.total_views,
                                !.unique_blogs = row.unique_blogs,
                                !.blog_ids = BlogIdsFor(bmap, AggKey(row))]
      : row \in {a \in agg : AggKey(a) \in DOMAIN emap} }

\* summaries_to_create: new instances, not saved yet (no pk).
BuildCreates(agg, bmap, emap) ==
    { [date |-> row.view_date, country |-> row.country, author |-> row.author,
       total_views |-> row.total_views, unique_blogs |-> row.unique_blogs,
       blog_ids |-> BlogIdsFor(bmap, AggKey(row))]
      : row \in {a \in agg : AggKey(a) \notin DOMAIN emap} }

\* A fresh primary key for a row with key k: the pair (n, k), n the least unused.
FreshId(sums, k) ==
    <<CHOOSE n \in 1..(Cardinality(sums) + 1) :
          /\ \A s \in sums : s.id # <<n, k>>
          /\ \A m \in 1..(n - 1) : \E s \in sums : s.id = <<m, k>>,
      k>>

\* unique_together = ["date", "country", "author"]: the database rejects a new
\* row equal to a stored one on the three columns; a NULL equals nothing.
UniqueViolation(sums, creates) ==
    \E c \in creates, s \in sums :
        /\ c.country # NULL /\ c.author # NULL
        /\ RowKey(s) = <<c.date, c.country, c.author>>

\* bulk_create
BulkCreate(sums, creates) ==
    sums \cup { [id |-> FreshId(sums, <<c.date, c.country, c.author>>),
                 date |-> c.date, country |-> c.country, author |-> c.author,
                 total_views |-> c.total_views, unique_blogs |-> c.unique_blogs,
                 blog_ids |-> c.blog_ids] : c \in creates }

\* bulk_update(..., ["total_views", "unique_blogs", "blog_ids"]): by primary key.
BulkUpdate(sums, updates) ==
    { IF \E u \in updates : u.id = s.id
      THEN LET u == CHOOSE u \in updates : u.id = s.id
           IN  [s EXCEPT !.total_views = u.total_views,
                         !.unique_blogs = u.unique_blogs,
                         !.blog_ids = u.blog_ids]
      ELSE s
      : s \in sums }

\* A variant that replaces the table by the rows of the run.
Rebuilt(sums, creates, updates) == BulkCreate(updates, creates)

\* with transaction.atomic(): bulk_create then bulk_update, all or nothing.
Committed(sums, creates, updates) == BulkUpdate(BulkCreate(sums, creates), updates)

\* What the database does to the transaction: nothing, or an error raised by
\* bulk_create or by bulk_update (connection lost, deadlock, statement timeout).
Faults == {"none", "create", "update"}

\* The transaction raises: a rejected insert, or a database error in a call
\* the command makes (bulk_create and bulk_update are skipped on empty lists).
PersistFails(sums, creates, updates, fault) ==
    \/ UniqueViolation(sums, creates)
    \/ fault = "create" /\ creates # {}
    \/ fault = "update" /\ updates # {}

\* A variant without the transaction: rows inserted before bulk_update raised stay.
Autocommit(sums, creates, updates, fault) ==
    IF UniqueViolation(sums, creates) \/ (fault = "create" /\ creates # {})
    THEN sums
    ELSE IF fault = "update" /\ updates # {}
    THEN BulkCreate(sums, creates)
    ELSE Committed(sums, creates, updates)

\* with transaction.atomic(): the table after the block; an exception inside it
\* rolls back what the block did.
Transaction(sums, creates, updates, fault) ==
    IF PersistFails(sums, creates, updates, fault) THEN sums
    ELSE Committed(sums, creates, updates)

\* A variant in which --dry-run does not skip the transaction.
DryCommits(dry, sums, creates, updates, fault) ==
    Transaction(sums, creates, updates, fault)

\* if options.get("dry_run"): report only; else: the transaction.
Persisted(dry, sums, creates, updates, fault) ==
    IF dry THEN sums ELSE Transaction(sums, creates, updates, fault)

\* The HLL key analytics:hll:{date}:{country_id or 'all'}:{author_id or 'all'}
HllKey(date, country, author) ==
    <<date, IF country = NULL THEN "all" ELSE country,
            IF author = NULL THEN "all" ELSE author>>

\* pfadd for every created or updated summary with a non-empty blog_ids.
Published(h, rows) ==
    LET pub == {s \in rows : s.blog_ids # {}}
        keys == {HllKey(s.date, s.country, s.author) : s \in pub}
        add(k) == UNION {s.blog_ids : s \in {x \in pub : HllKey(x.date, x.country, x.author) = k}}
    IN  [k \in DOMAIN h \cup keys |->
            (IF k \in DOMAIN h THEN h[k] ELSE {}) \cup (IF k \in keys THEN add(k) ELSE {})]

(***************************************************************************)
(* Lock acquisition of Command.handle.                                     *)
(***************************************************************************)
\* cache.add(lock_key, "1"): TRUE iff the key was absent; raises when the
\* cache is down (cache_ok FALSE).  A forced run does not call it.
CacheAdd(force, up, held) ==
    [cache_ok |-> ~force /\ up,
     cache_lock |-> ~force /\ up /\ ~held,
     lock_acquired |-> force \/ (up /\ ~held),
     lock |-> IF ~force /\ up THEN TRUE ELSE held]

\* The fallback when lock_acquired is FALSE: pg_try_advisory_lock on postgresql.
TryAdvisory(r, acquired, pg, holder) ==
    IF ~acquired /\ pg /\ holder \in {0, r}
    THEN [lock_acquired |-> TRUE, advisory_lock |-> TRUE, advisory |-> r]
    ELSE [lock_acquired |-> acquired, advisory_lock |-> FALSE, advisory |-> holder]

\* A session-level advisory lock ends with the database session of the process
\* that took it: the command returning or dying frees it.
SessionEnd(r, holder) == IF holder = r THEN 0 ELSE holder

\* cache.delete(lock_key) inside try/except: removes the key when the cache answers.
CacheDelete(up, held) == IF up THEN FALSE ELSE held

\* A variant that gives up when no lock was acquired.
AbortUnlocked(acquired) == IF acquired THEN "read" ELSE "done"

\* if not lock_acquired: the warning is written, and the command goes on to
\* the date range whatever lock_acquired is.
AfterAcquire(acquired) == "read"

(***************************************************************************)
(* SpecJob: the command, one step per call, for concurrent runs.           *)
(***************************************************************************)
IdleRun ==
    [pc |-> "idle", force |-> FALSE, dry |-> FALSE, days |-> 0,
     cache_ok |-> FALSE, cache_lock |-> FALSE, lock_acquired |-> FALSE,
     advisory_lock |-> FALSE,
     start_date |-> 0, bmap |-> <<>>, emap |-> <<>>, creates |-> {}, updates |-> {}]

NoResp == [op |-> "none"]

\* filters.get(name) of an absent start_date or end_date: None, here a number
\* below every time a request or a range shortcut can give.
NoTime == 0 - (366 * TicksPerDay)

\* A filter dict with no key given: filters.get yields a falsy value (None,
\* which the tests below treat as 0, the empty list or the empty string do).
NoFilters ==
    [year |-> 0, start_date |-> NoTime, end_date |-> NoTime,
     country_codes |-> {}, exclude_country_codes |-> {},
     author_username |-> NULL, blog_id |-> 0]

NoAsk == [type |-> "country", filters |-> NoFilters]

Init ==
    /\ events = {}
    /\ summaries = {}
    /\ lock = FALSE
    /\ advisory = 0
    /\ cacheUp = TRUE
    /\ postgres \in BOOLEAN
    /\ useHLL \in BOOLEAN
    /\ redisUp = TRUE
    /\ hll = <<>>
    /\ run = [r \in Runs |-> IdleRun]
    /\ cache = <<>>
    /\ ask = NoAsk
    /\ resp = NoResp

\* An external ingestion path appends a view event.
Ingest(t) ==
    /\ Cardinality(events) < MaxEvents
    /\ events' = events \cup {NewEvent(events, t)}

\* BlogView.timestamp is auto_now_add: a view ingested while the command runs
\* carries the current time.
JobIngest ==
    /\ \E t \in {x \in EventTypes : x.ts = MaxTs} : Ingest(t)
    /\ UNCHANGED <<summaries, lock, advisory, cacheUp, postgres, useHLL,
                   redisUp, hll, run, cache, resp, ask>>

\* The cache backend goes down or comes back.
JobCacheFlip ==
    /\ cacheUp' = ~cacheUp
    /\ UNCHANGED <<events, summaries, lock, advisory, postgres, useHLL,
                   redisUp, hll, run, cache, resp, ask>>

\* The command is invoked with its options; lines 51-95: cache.add, the
\* advisory fallback, the warning.  The run goes on whatever lock_acquired is.
AcquireLock(r) ==
    /\ run[r].pc = "idle"
    /\ IF r = 1 THEN TRUE ELSE run[r - 1].pc # "idle"
    /\ \E f \in BOOLEAN, d \in {FALSE}, n \in 0..MaxDaysOpt :
          LET c == CacheAdd(f, cacheUp, lock)
              a == TryAdvisory(r, c.lock_acquired, postgres, advisory)
          IN  /\ lock' = c.lock
              /\ advisory' = a.advisory
              /\ run' = [run EXCEPT ![r] =
                           [IdleRun EXCEPT !.pc = AfterAcquire(a.lock_acquired),
                                           !.force = f, !.dry = d,
                                           !.days = n,
                                           !.cache_ok = c.cache_ok,
                                           !.cache_lock = c.cache_lock,
                                           !.lock_acquired = a.lock_acquired,
                                           !.advisory_lock = a.advisory_lock]]
    /\ UNCHANGED <<events, summaries, cacheUp, postgres, useHLL, redisUp, hll,
                   cache, resp, ask>>

\* Lines 97-134: the date range (without --days and without events the command
\* returns here), then the blogid_rows query is evaluated.
ReadBlogIds(r) ==
    /\ run[r].pc = "read"
    /\ IF run[r].days = 0 /\ events = {}
       THEN /\ run' = [run EXCEPT ![r] = [IdleRun EXCEPT !.pc = "done"]]
            /\ advisory' = SessionEnd(r, advisory)
       ELSE LET D == StartDate(events, run[r].days)
            IN  /\ run' = [run EXCEPT ![r].pc = "existing",
                                      ![r].start_date = D,
                                      ![r].bmap = BlogIdsMap(events, D)]
                /\ UNCHANGED advisory
    /\ UNCHANGED <<events, summaries, lock, cacheUp, postgres, useHLL,
                   redisUp, hll, cache, resp, ask>>

\* Lines 141-144: the existing summaries are read.
ReadExisting(r) ==
    /\ run[r].pc = "existing"
    /\ \E m \in ExistingMaps(summaries, run[r].start_date) :
          run' = [run EXCEPT ![r].pc = "build", ![r].emap = m]
    /\ UNCHANGED <<events, summaries, lock, advisory, cacheUp, postgres, useHLL,
                   redisUp, hll, cache, resp, ask>>

\* Lines 146-166: the lazy aggregated query is evaluated and the upserts built.
BuildUpserts(r) ==
    /\ run[r].pc = "build"
    /\ LET agg == Aggregated(events, run[r].start_date)
       IN  run' = [run EXCEPT ![r].pc = "persist",
                              ![r].creates = BuildCreates(agg, run[r].bmap, run[r].emap),
                              ![r].updates = BuildUpdates(agg, run[r].bmap, run[r].emap),
                              ![r].bmap = <<>>,
                              ![r].emap = <<>>]
    /\ UNCHANGED <<events, summaries, lock, advisory, cacheUp, postgres, useHLL,
                   redisUp, hll, cache, resp, ask>>

\* Lines 168-220: a dry run reports; otherwise one transaction.  An exception
\* in the transaction rolls it back and ends the command: lines 195-236 are not
\* reached, and the database session of the process ends with it.  Otherwise
\* the HLL keys of the created and updated summaries are written.
Persist(r) ==
    /\ run[r].pc = "persist"
    /\ \E fault \in Faults :
          /\ summaries' = Persisted(run[r].dry, summaries, run[r].creates,
                                    run[r].updates, fault)
          /\ IF ~run[r].dry /\ PersistFails(summaries, run[r].creates,
                                            run[r].updates, fault)
             THEN /\ run' = [run EXCEPT ![r].pc = "crashed", ![r].creates = {},
                                        ![r].updates = {}]
                  /\ advisory' = SessionEnd(r, advisory)
                  /\ UNCHANGED hll
             ELSE /\ hll' = IF useHLL /\ redisUp
                            THEN Published(hll, run[r].creates \cup run[r].updates)
                            ELSE hll
                  /\ run' = [run EXCEPT ![r].pc = "release", ![r].creates = {},
                                        ![r].updates = {}]
                  /\ UNCHANGED advisory
    /\ UNCHANGED <<events, lock, cacheUp, postgres, useHLL, redisUp,
                   cache, resp, ask>>

\* Lines 222-236: cache.delete(lock_key), and the advisory unlock if taken.
ReleaseLock(r) ==
    /\ run[r].pc = "release"
    /\ lock' = CacheDelete(cacheUp, lock)
    /\ advisory' = SessionEnd(r, advisory)
    /\ run' = [run EXCEPT ![r] = [IdleRun EXCEPT !.pc = "done"]]
    /\ UNCHANGED <<events, summaries, cacheUp, postgres, useHLL, redisUp, hll,
                   cache, resp, ask>>

JobNext ==
    \/ JobIngest
    \/ JobCacheFlip
    \/ \E r \in Runs : AcquireLock(r)
    \/ \E r \in Runs : ReadBlogIds(r)
    \/ \E r \in Runs : ReadExisting(r)
    \/ \E r \in Runs : BuildUpserts(r)
    \/ \E r \in Runs : Persist(r)
    \/ \E r \in Runs : ReleaseLock(r)

JobInit ==
    /\ Init
    /\ useHLL = FALSE

SpecJob == JobInit /\ [][JobNext]_vars

(***************************************************************************)
(* SpecBatch: the command as one operation, run after run, while views are *)
(* ingested and an operator may clear the summary table.                   *)
(***************************************************************************)
\* Command.handle from its first line to its last, no other process between.
\* fault: what the database does to the transaction of lines 177-187.
\* today: timezone.now().date() of the run.
PrecalcAt(today, f, d, n, fault) ==
    LET c == CacheAdd(f, cacheUp, lock)
    IN  IF n = 0 /\ events = {}
        THEN /\ lock' = c.lock
             /\ resp' = [op |-> "precalc_nodata"]
             /\ UNCHANGED <<summaries, hll>>
        ELSE LET D == StartDateAt(today, events, n)
                 bmap == BlogIdsMap(events, D)
                 agg == Aggregated(events, D)
             IN  \E emap \in ExistingMaps(summaries, D) :
                   LET creates == BuildCreates(agg, bmap, emap)
                       updates == BuildUpdates(agg, bmap, emap)
                   IN  /\ summaries' = Persisted(d, summaries, creates, updates, fault)
                       /\ IF ~d /\ PersistFails(summaries, creates, updates, fault)
                          THEN /\ lock' = c.lock
                               /\ resp' = [op |-> "precalc_failed",
                                           fault |-> fault,
                                           created |-> Cardinality(creates)]
                               /\ UNCHANGED hll
                          ELSE /\ hll' = IF useHLL /\ redisUp
                                         THEN Published(hll, creates \cup updates)
                                         ELSE hll
                               /\ lock' = CacheDelete(cacheUp, c.lock)
                               /\ resp' = [op |-> "precalc", dry |-> d,
                                           start_date |-> D,
                                           created |-> Cardinality(creates),
                                           updated |-> Cardinality(updates),
                                           rerun |-> /\ resp.op = "precalc"
                                                     /\ ~resp.dry
                                                     /\ resp.start_date = D]

\* The command run on the day of the last instant.
Precalc(f, d, n, fault) == PrecalcAt(Today, f, d, n, fault)

BatchPrecalc ==
    /\ \E f \in BOOLEAN, d \in BOOLEAN, n \in 0..MaxDaysOpt :
          Precalc(f, d, n, "none")
    /\ UNCHANGED <<events, advisory, cacheUp, postgres, useHLL, redisUp, run, cache,
                   ask>>

BatchIngest ==
    /\ \E t \in EventTypes : Ingest(t)
    /\ resp' = [op |-> "ingest"]
    /\ UNCHANGED <<summaries, lock, advisory, cacheUp, postgres, useHLL,
                   redisUp, hll, run, cache, ask>>

\* An operator clears the table: DailyAnalyticsSummary.objects.all().delete()
OperatorDelete ==
    /\ summaries # {}
    /\ summaries' = {}
    /\ resp' = [op |-> "delete"]
    /\ UNCHANGED <<events, lock, advisory, cacheUp, postgres, useHLL, redisUp,
                   hll, run, cache, ask>>

BatchNext ==
    \/ BatchIngest
    \/ BatchPrecalc
    \/ OperatorDelete

BatchInit ==
    /\ Init
    /\ postgres = FALSE
    /\ useHLL = FALSE

SpecBatch == BatchInit /\ [][BatchNext]_vars

\* A run on the day after the last instant, not forced.
LatePrecalc ==
    /\ \E d \in BOOLEAN, n \in 0..MaxDaysOpt :
          PrecalcAt(Today + 1, FALSE, d, n, "none")
    /\ UNCHANGED <<events, advisory, cacheUp, postgres, useHLL, redisUp, run, cache,
                   ask>>

\* The command run a day later, while views of the days before are still
\* being stored.
SpecLate == BatchInit /\ [][BatchIngest \/ LatePrecalc]_vars

\* IDEEZA_USE_HLL is on.
DryInit ==
    /\ Init
    /\ postgres = FALSE
    /\ useHLL = TRUE

\* The command as one operation with the HLL backend enabled.
SpecDry == DryInit /\ [][BatchNext]_vars

(***************************************************************************)
(* SpecFault: runs of the command against a database that may raise in the *)
(* transaction, while views are ingested.                                  *)
(***************************************************************************)
\* A run (not forced, not dry) whose transaction the database may fail.
FaultyPrecalc ==
    /\ \E n \in 0..MaxDaysOpt, fault \in Faults : Precalc(FALSE, FALSE, n, fault)
    /\ UNCHANGED <<events, advisory, cacheUp, postgres, useHLL, redisUp, run, cache,
                   ask>>

FaultNext ==
    \/ BatchIngest
    \/ FaultyPrecalc

SpecFault == BatchInit /\ [][FaultNext]_vars

(***************************************************************************)
(* AnalyticsService: filters, the live and the fast grouped query.         *)
(***************************************************************************)
Authors == {AuthorOf(b) : b \in Blogs}

\* timestamp__year / date__year on a calendar of DaysPerYear days a year.
YearOf(d) == 1 + (d \div DaysPerYear)

Years == {YearOf(d) : d \in 0..Today}

ObjectTypes == {"country", "user"}

\* The filter dicts the queries are called with: at most one key given.
FilterSpecs ==
    {NoFilters}
    \cup {[NoFilters EXCEPT !.year = y] : y \in Years}
    \cup {[NoFilters EXCEPT !.start_date = t] : t \in Timestamps}
    \cup {[NoFilters EXCEPT !.end_date = t] : t \in Timestamps}
    \cup {[NoFilters EXCEPT !.country_codes = c] : c \in (SUBSET Codes) \ {{}}}
    \cup {[NoFilters EXCEPT !.exclude_country_codes = c] : c \in (SUBSET Codes) \ {{}}}
    \cup {[NoFilters EXCEPT !.author_username = a] : a \in Authors}
    \cup {[NoFilters EXCEPT !.blog_id = b] : b \in Blogs}

\* if v := filters.get(name): Python truthiness of a number, a datetime, a
\* list and a string.
GivenInt(v) == v # 0
GivenTime(v) == v # NoTime
GivenList(v) == v # {}
GivenStr(v) == v # NULL

\* A variant that applies the year and the start_date and end_date together.
MatchEventMerged(e, f) ==
    /\ GivenInt(f.year) => YearOf(DateOf(e.ts)) = f.year
    /\ GivenTime(f.start_date) => e.ts >= f.start_date
    /\ GivenTime(f.end_date) => e.ts <= f.end_date
    /\ GivenList(f.country_codes) => e.country \in f.country_codes
    /\ GivenList(f.exclude_country_codes) => e.country \notin f.exclude_country_codes
    /\ GivenStr(f.author_username) => AuthorOf(e.blog) = f.author_username
    /\ GivenInt(f.blog_id) => e.blog = f.blog_id

\* _build_blogview_filters: the events a filter dict selects.
MatchEvent(e, f) ==
    /\ IF GivenInt(f.year)
       THEN YearOf(DateOf(e.ts)) = f.year
       ELSE /\ GivenTime(f.start_date) => e.ts >= f.start_date
            /\ GivenTime(f.end_date) => e.ts <= f.end_date
    /\ GivenList(f.country_codes) => e.country \in f.country_codes
    /\ GivenList(f.exclude_country_codes) => e.country \notin f.exclude_country_codes
    /\ GivenStr(f.author_username) => AuthorOf(e.blog) = f.author_username
    /\ GivenInt(f.blog_id) => e.blog = f.blog_id

\* _build_summary_filters: the summary rows a filter dict selects.
MatchSummary(s, f) ==
    /\ IF GivenInt(f.year)
       THEN YearOf(s.date) = f.year
       ELSE /\ GivenTime(f.start_date) => s.date >= DateOf(f.start_date)
            /\ GivenTime(f.end_date) => s.date <= DateOf(f.end_date)
    /\ GivenList(f.country_codes) => s.country \in f.country_codes
    /\ GivenList(f.exclude_country_codes) => s.country \notin f.exclude_country_codes
    /\ GivenStr(f.author_username) => s.author = f.author_username

\* group_field: country__code, or the author's username.
GroupOf(type, country, author) == IF type = "country" THEN country ELSE author

\* get_grouped_analytics on a cache miss: values(x).annotate(y, z); the
\* order of the list is left out.
LiveData(evs, type, f) ==
    LET sel == {e \in evs : MatchEvent(e, f)}
        grp(g) == {e \in sel : GroupOf(type, e.country, AuthorOf(e.blog)) = g}
    IN  { [x |-> g, y |-> Cardinality({e.blog : e \in grp(g)}),
           z |-> Cardinality(grp(g))]
          : g \in {GroupOf(type, e.country, AuthorOf(e.blog)) : e \in sel} }

RECURSIVE SumViews(_)
\* Sum("total_views")
SumViews(rows) ==
    IF rows = {} THEN 0
    ELSE LET r == CHOOSE r \in rows : TRUE
         IN  r.total_views + SumViews(rows \ {r})

RECURSIVE SumUnique(_)
\* Sum("unique_blogs"): the per-day counts added up.
SumUnique(rows) ==
    IF rows = {} THEN 0
    ELSE LET r == CHOOSE r \in rows : TRUE
         IN  r.unique_blogs + SumUnique(rows \ {r})

\* len(union_map[x]): the union of the blog_ids of a group's rows.
ExactUnion(rows) == Cardinality(UNION {r.blog_ids : r \in rows})

\* redis_conn.pfcount(*keys): the merged cardinality of the keys that exist
\* (a missing key counts as empty).
PfCount(h, keys) == Cardinality(UNION {h[k] : k \in keys \cap DOMAIN h})

\* A variant without the fallback: whatever the HLL read left in y stays.
KeepApprox(y0, rows) == y0

\* remaining = [e for e in data if e["y"] == 0]: those get the exact union.
FallbackY(y0, rows) == IF y0 = 0 THEN ExactUnion(rows) ELSE y0

\* The summary rows of the fast query: the filter, and no null group value.
FastRows(sums, type, f) ==
    {s \in sums : MatchSummary(s, f) /\ GroupOf(type, s.country, s.author) # NULL}

\* get_grouped_analytics_fast on a cache miss over a non-empty table.
\* hllOn: IDEEZA_USE_HLL; conn: get_redis_connection() gave a client;
\* failed: the groups whose pfcount raises.
FastData(sums, h, type, f, hllOn, conn, failed) ==
    LET rows == FastRows(sums, type, f)
        grp(g) == {s \in rows : GroupOf(type, s.country, s.author) = g}
        keys(g) == {HllKey(s.date, s.country, s.author) : s \in grp(g)}
        y0(g) == IF g \in failed THEN 0 ELSE PfCount(h, keys(g))
    IN  { [x |-> g,
           y |-> IF hllOn /\ conn THEN FallbackY(y0(g), grp(g))
                 ELSE ExactUnion(grp(g)),
           z |-> SumViews(grp(g))]
          : g \in {GroupOf(type, s.country, s.author) : s \in rows} }

\* A variant whose payload leaves the type out.
KeyWithoutType(prefix, type, f) == <<prefix, f>>

\* _generate_cache_key(prefix, type=..., filters=...)
CacheKey(prefix, type, f) == <<prefix, type, f>>

\* if cached := cache.get(key): an entry that is present and not empty.
CacheHit(c, key) == key \in DOMAIN c /\ c[key] # {}

\* cache.set(key, data, timeout): the backend holds at most MaxCache entries
\* and drops older ones to make room.
CacheSet(c, key, data) ==
    LET old == DOMAIN c \ {key}
        keep == IF Cardinality(old) < MaxCache THEN {old}
                ELSE {k \in SUBSET old : Cardinality(k) = MaxCache - 1}
    IN  { [k \in kk \cup {key} |-> IF k = key THEN data ELSE c[k]] : kk \in keep }

(***************************************************************************)
(* SpecQuery: the two grouped queries against the stores, with runs of the *)
(* command, operator deletions and backend outages between them.           *)
(***************************************************************************)
\* The exception of cache.get leaves the call.
Failed(prefix) == [op |-> prefix, status |-> "error", hll |-> "none", failed |-> {}]

\* The fast query on an empty summary table: the warning and the empty list.
ColdStart ==
    [op |-> "grouped_fast", status |-> "cold", data |-> {}, hll |-> "none",
     failed |-> {}]

Answer(prefix, type, f, hit, data, hllState, failed) ==
    [op |-> prefix, status |-> "ok", type |-> type, filters |-> f,
     cached |-> hit, data |-> data, hll |-> hllState, failed |-> failed]

\* AnalyticsService.get_grouped_analytics(object_type, filters).
\* up: the cache backend answers during the call.
GroupedLive(type, f, up) ==
    LET key == CacheKey("grouped", type, f)
    IN  IF ~up
        THEN /\ resp' = Failed("grouped")
             /\ UNCHANGED cache
        ELSE IF CacheHit(cache, key)
        THEN /\ resp' = Answer("grouped", type, f, TRUE, cache[key], "none", {})
             /\ UNCHANGED cache
        ELSE LET data == LiveData(events, type, f)
             IN  /\ cache' \in CacheSet(cache, key, data)
                 /\ resp' = Answer("grouped", type, f, FALSE, data, "none", {})

\* The groups the fast query finds for its arguments.
FastGroups(type, f) ==
    {GroupOf(type, s.country, s.author) : s \in FastRows(summaries, type, f)}

\* A variant that stores the empty list of a cold start in the cache and
\* takes every entry the cache holds, an empty list too, as a hit.
GroupedFastColdCached(type, f, up, conn, fail) ==
    LET key == CacheKey("grouped_fast", type, f)
    IN  IF ~up
        THEN /\ resp' = Failed("grouped_fast")
             /\ UNCHANGED cache
        ELSE IF key \in DOMAIN cache
        THEN /\ resp' = Answer("grouped_fast", type, f, TRUE, cache[key], "none", {})
             /\ UNCHANGED cache
        ELSE IF summaries = {}
        THEN /\ resp' = ColdStart
             /\ cache' \in CacheSet(cache, key, {})
        ELSE LET data == FastData(summaries, hll, type, f, useHLL, conn, fail)
                 tried == useHLL /\ data # {}
             IN  /\ cache' \in CacheSet(cache, key, data)
                 /\ resp' = Answer("grouped_fast", type, f, FALSE, data,
                                   IF ~tried THEN "none"
                                   ELSE IF conn THEN "conn" ELSE "noconn",
                                   IF tried /\ conn THEN fail ELSE {})

\* AnalyticsService.get_grouped_analytics_fast(object_type, filters).
\* up: the cache backend answers during the call; conn: get_redis_connection()
\* gives a client; fail: the groups whose pfcount raises.
GroupedFast(type, f, up, conn, fail) ==
    LET key == CacheKey("grouped_fast", type, f)
    IN  IF ~up
        THEN /\ resp' = Failed("grouped_fast")
             /\ UNCHANGED cache
        ELSE IF CacheHit(cache, key)
        THEN /\ resp' = Answer("grouped_fast", type, f, TRUE, cache[key], "none", {})
             /\ UNCHANGED cache
        ELSE IF summaries = {}
        THEN /\ resp' = ColdStart
             /\ UNCHANGED cache
        ELSE LET data == FastData(summaries, hll, type, f, useHLL, conn, fail)
                 tried == useHLL /\ data # {}
             IN  /\ cache' \in CacheSet(cache, key, data)
                 /\ resp' = Answer("grouped_fast", type, f, FALSE, data,
                                   IF ~tried THEN "none"
                                   ELSE IF conn THEN "conn" ELSE "noconn",
                                   IF tried /\ conn THEN fail ELSE {})

QueryLive ==
    /\ \E up \in BOOLEAN : GroupedLive(ask.type, ask.filters, up)
    /\ UNCHANGED <<events, summaries, lock, advisory, cacheUp, postgres, useHLL,
                   redisUp, hll, run, ask>>

QueryFast ==
    /\ \E up \in BOOLEAN :
          \E conn \in (IF useHLL /\ up THEN BOOLEAN ELSE {TRUE}) :
              \E fail \in (IF useHLL /\ up /\ conn
                           THEN SUBSET FastGroups(ask.type, ask.filters) ELSE {{}}) :
                  GroupedFast(ask.type, ask.filters, up, conn, fail)
    /\ UNCHANGED <<events, summaries, lock, advisory, cacheUp, postgres, useHLL,
                   redisUp, hll, run, ask>>

\* A run of the command between queries (not forced, not dry, no database error).
QueryPrecalc ==
    /\ \E n \in 0..MaxDaysOpt : Precalc(FALSE, FALSE, n, "none")
    /\ UNCHANGED <<events, advisory, cacheUp, postgres, useHLL, redisUp, run, cache,
                   ask>>

\* A cached result reaches its timeout (CACHE_TIMEOUT) and is gone.
CacheExpire ==
    /\ \E k \in DOMAIN cache : cache' = [j \in DOMAIN cache \ {k} |-> cache[j]]
    /\ resp' = [op |-> "expire"]
    /\ UNCHANGED <<events, summaries, lock, advisory, cacheUp, postgres, useHLL,
                   redisUp, hll, run, ask>>

\* An HLL key reaches the expiry the command set on it and is gone.
HllExpire ==
    /\ \E k \in DOMAIN hll : hll' = [j \in DOMAIN hll \ {k} |-> hll[j]]
    /\ resp' = [op |-> "hll_expire"]
    /\ UNCHANGED <<events, summaries, lock, advisory, cacheUp, postgres, useHLL,
                   redisUp, run, cache, ask>>

QueryNext ==
    \/ QueryPrecalc
    \/ OperatorDelete
    \/ QueryLive
    \/ QueryFast
    \/ CacheExpire

RECURSIVE EventSets(_)
\* The BlogView tables that hold at most n rows.
EventSets(n) ==
    IF n = 0 THEN {{}}
    ELSE LET less == EventSets(n - 1)
         IN  less \cup {evs \cup {NewEvent(evs, t)} : evs \in less, t \in EventTypes}

\* The views were ingested before; the summary table, the cache and Redis
\* are still empty.  The client asks one question, again and again.
StoreInit ==
    /\ events \in EventSets(MaxEvents)
    /\ summaries = {}
    /\ lock = FALSE
    /\ advisory = 0
    /\ cacheUp = TRUE
    /\ postgres = FALSE
    /\ redisUp = TRUE
    /\ hll = <<>>
    /\ run = [r \in Runs |-> IdleRun]
    /\ cache = <<>>
    /\ ask \in [type : ObjectTypes, filters : FilterSpecs]
    /\ resp = NoResp

\* IDEEZA_USE_HLL is off.
QueryInit == StoreInit /\ useHLL = FALSE

SpecQuery == QueryInit /\ [][QueryNext]_vars

HllNext ==
    \/ QueryPrecalc
    \/ OperatorDelete
    \/ QueryFast
    \/ CacheExpire
    \/ HllExpire

\* IDEEZA_USE_HLL is on.
HllInit == StoreInit /\ useHLL = TRUE

SpecHll == HllInit /\ [][HllNext]_vars

(***************************************************************************)
(* SpecApi: GroupedAnalyticsView.post, from the request body through       *)
(* AnalyticsFilterSerializer to the fast grouped query.                    *)
(***************************************************************************)
\* RANGE_CHOICES
Ranges == {"day", "week", "month", "year"}

\* RANGE_DAYS
RangeDays(r) ==
    CASE r = "day" -> 1
      [] r = "week" -> 7
      [] r = "month" -> 30
      [] r = "year" -> 365

\* timezone.now()
Now == MaxTs

\* timedelta(days=n)
Days(n) == n * TicksPerDay

\* The dict the field validation hands to validate(): only the keys the
\* request carried.  rg = NULL, sd = NoTime, ed = NoTime, yr = 0, hasCc = FALSE,
\* hasEx = FALSE stand for a key the request did not carry.
RequestData(rg, sd, ed, yr, hasCc, cc, hasEx, ex) ==
    LET keys == (IF rg # NULL THEN {"range"} ELSE {})
                \cup (IF sd # NoTime THEN {"start_date"} ELSE {})
                \cup (IF ed # NoTime THEN {"end_date"} ELSE {})
                \cup (IF yr # 0 THEN {"year"} ELSE {})
                \cup (IF hasCc THEN {"country_codes"} ELSE {})
                \cup (IF hasEx THEN {"exclude_country_codes"} ELSE {})
    IN  [k \in keys |->
            CASE k = "range" -> rg
              [] k = "start_date" -> sd
              [] k = "end_date" -> ed
              [] k = "year" -> yr
              [] k = "country_codes" -> cc
              [] k = "exclude_country_codes" -> ex]

\* The request bodies: any combination of the keys about time, or any
\* combination of the two lists, a list key being absent, empty or not empty.
RequestSpecs ==
    {RequestData(rg, sd, ed, yr, FALSE, {}, FALSE, {}) :
        rg \in Ranges \cup {NULL}, sd \in Timestamps \cup {NoTime},
        ed \in Timestamps \cup {NoTime}, yr \in Years \cup {0}}
    \cup
    {RequestData(NULL, NoTime, NoTime, 0, hasCc, cc, hasEx, ex) :
        hasCc \in BOOLEAN, cc \in SUBSET Codes, hasEx \in BOOLEAN, ex \in SUBSET Codes}

\* data[k] = v for every key of upd, the other keys of data kept.
Updated(data, upd) ==
    [k \in DOMAIN data \cup DOMAIN upd |-> IF k \in DOMAIN upd THEN upd[k] ELSE data[k]]

\* A variant of validate() that lets an empty list through.
ValidateLoose(data) ==
    IF "range" \in DOMAIN data
    THEN [ok |-> TRUE, field |-> NULL,
          data |-> Updated(data, [start_date |-> Now - Days(RangeDays(data["range"])),
                                  end_date |-> Now])]
    ELSE [ok |-> TRUE, field |-> NULL, data |-> data]

\* A variant of validate() in which the range shortcut fills in only the
\* start_date and end_date the request did not carry.
ValidateMerge(data) ==
    IF "country_codes" \in DOMAIN data /\ data["country_codes"] = {}
    THEN [ok |-> FALSE, field |-> "country_codes", data |-> data]
    ELSE IF "exclude_country_codes" \in DOMAIN data /\ data["exclude_country_codes"] = {}
    THEN [ok |-> FALSE, field |-> "exclude_country_codes", data |-> data]
    ELSE IF "range" \in DOMAIN data
    THEN [ok |-> TRUE, field |-> NULL,
          data |-> Updated([start_date |-> Now - Days(RangeDays(data["range"])),
                            end_date |-> Now], data)]
    ELSE [ok |-> TRUE, field |-> NULL, data |-> data]

\* AnalyticsFilterSerializer.validate(data): ok FALSE is the ValidationError
\* on the named field; otherwise data is the validated dict.
Validate(data) ==
    IF "country_codes" \in DOMAIN data /\ data["country_codes"] = {}
    THEN [ok |-> FALSE, field |-> "country_codes", data |-> data]
    ELSE IF "exclude_country_codes" \in DOMAIN data /\ data["exclude_country_codes"] = {}
    THEN [ok |-> FALSE, field |-> "exclude_country_codes", data |-> data]
    ELSE IF "range" \in DOMAIN data
    THEN [ok |-> TRUE, field |-> NULL,
          data |-> Updated(data, [start_date |-> Now - Days(RangeDays(data["range"])),
                                  end_date |-> Now])]
    ELSE [ok |-> TRUE, field |-> NULL, data |-> data]

\* filters.get(name) for the names the filter builders read: None for a key
\* the validated dict does not hold.
AsFilters(data) ==
    [year |-> IF "year" \in DOMAIN data THEN data["year"] ELSE 0,
     start_date |-> IF "start_date" \in DOMAIN data THEN data["start_date"] ELSE NoTime,
     end_date |-> IF "end_date" \in DOMAIN data THEN data["end_date"] ELSE NoTime,
     country_codes |-> IF "country_codes" \in DOMAIN data
                       THEN data["country_codes"] ELSE {},
     exclude_country_codes |-> IF "exclude_country_codes" \in DOMAIN data
                               THEN data["exclude_country_codes"] ELSE {},
     author_username |-> NULL, blog_id |-> 0]

\* serializer.is_valid(raise_exception=True): the 400 response.
Rejected(field) == [op |-> "post_grouped", status |-> "invalid", field |-> field]

\* A variant of the views that reads the path argument after the serializer
\* has validated the body.
DispatchLate(types, kind, data) ==
    LET v == Validate(data)
    IN  IF ~v.ok THEN [status |-> "invalid", field |-> v.field, data |-> data]
        ELSE IF kind \notin types
        THEN [status |-> "bad_type", field |-> NULL, data |-> data]
        ELSE [status |-> "ok", field |-> NULL, data |-> v.data]

\* The head of a view's post(): the path argument is tested against the list
\* of valid types, then the serializer validates the body.
Dispatch(types, kind, data) ==
    IF kind \notin types
    THEN [status |-> "bad_type", field |-> NULL, data |-> data]
    ELSE LET v == Validate(data)
         IN  IF ~v.ok THEN [status |-> "invalid", field |-> v.field, data |-> data]
             ELSE [status |-> "ok", field |-> NULL, data |-> v.data]

\* The 400 response of a view: the error about the type, or the serializer's.
Refused(op, d) == [op |-> op, status |-> d.status, field |-> d.field]

\* GroupedAnalyticsView.post(request, object_type).
PostGrouped ==
    /\ LET d == Dispatch(ObjectTypes, ask.type, ask.data)
       IN  IF d.status # "ok"
           THEN /\ resp' = Refused("post_grouped", d)
                /\ UNCHANGED cache
           ELSE \E up \in BOOLEAN :
                    GroupedFast(ask.type, AsFilters(d.data), up, TRUE, {})
    /\ UNCHANGED <<events, summaries, lock, advisory, cacheUp, postgres, useHLL,
                   redisUp, hll, run, ask>>

ApiNext ==
    \/ QueryPrecalc
    \/ PostGrouped
    \/ CacheExpire

\* At most one view was ingested; the client posts one body to one
\* object_type, again and again.
ApiInit ==
    /\ events \in EventSets(1)
    /\ summaries = {}
    /\ lock = FALSE
    /\ advisory = 0
    /\ cacheUp = TRUE
    /\ postgres = FALSE
    /\ useHLL = FALSE
    /\ redisUp = TRUE
    /\ hll = <<>>
    /\ run = [r \in Runs |-> IdleRun]
    /\ cache = <<>>
    /\ ask \in [type : ObjectTypes, data : RequestSpecs]
    /\ resp = NoResp

SpecApi == ApiInit /\ [][ApiNext]_vars

(***************************************************************************)
(* SpecGrowth: AnalyticsService._calculate_growth_periods, one loop        *)
(* iteration per step.  ask is raw_data (the views of each period, in      *)
(* order); resp holds results and prev_views.  z is kept in hundredths of  *)
(* a percent, the unit round(growth, 2) rounds to.                         *)
(***************************************************************************)
\* The views a period can have.
ViewCounts == (0..MaxViews) \cup {32, 50, 100}

\* The raw_data lists of at most MaxPeriods periods.
RawData == UNION {[1..n -> ViewCounts] : n \in 0..MaxPeriods}

\* round(num / den, 0) for den > 0: the nearest integer, a tie going to the
\* even one (Python's round).
RoundHalfEven(num, den) ==
    LET q == num \div den
        r == num % den
    IN  IF 2 * r < den THEN q
        ELSE IF 2 * r > den THEN q + 1
        ELSE IF q % 2 = 0 THEN q ELSE q + 1

\* A variant that cuts the growth off after two decimals instead of rounding.
GrowthCut(views, prev_views) ==
    IF prev_views > 0 THEN ((views - prev_views) * 10000) \div prev_views ELSE 0

\* round(((views - prev_views) / prev_views * 100) if prev_views > 0 else 0.0, 2),
\* in hundredths of a percent.
Growth(views, prev_views) ==
    IF prev_views > 0
    THEN RoundHalfEven((views - prev_views) * 10000, prev_views)
    ELSE 0

\* results = [], prev_views = 0
GrowthStart == [op |-> "growth", results |-> <<>>, prev_views |-> 0]

\* One iteration of "for entry in raw_data".
GrowthStep ==
    /\ resp.op = "growth"
    /\ Len(resp.results) < Len(ask)
    /\ LET views == ask[Len(resp.results) + 1]
       IN  resp' = [op |-> "growth",
                    results |-> Append(resp.results,
                                       [y |-> views, z |-> Growth(views, resp.prev_views)]),
                    prev_views |-> views]
    /\ UNCHANGED <<events, summaries, lock, advisory, cacheUp, postgres, useHLL,
                   redisUp, hll, run, cache, ask>>

GrowthNext == GrowthStep

GrowthInit ==
    /\ events = {}
    /\ summaries = {}
    /\ lock = FALSE
    /\ advisory = 0
    /\ cacheUp = TRUE
    /\ postgres = FALSE
    /\ useHLL = FALSE
    /\ redisUp = TRUE
    /\ hll = <<>>
    /\ run = [r \in Runs |-> IdleRun]
    /\ cache = <<>>
    /\ ask \in RawData
    /\ resp = GrowthStart

SpecGrowth == GrowthInit /\ [][GrowthNext]_vars

(***************************************************************************)
(* SpecTop: AnalyticsService.get_top_analytics over tables with more       *)
(* groups than the query returns.                                          *)
(***************************************************************************)
\* VALID_TOP_TYPES
TopTypes == {"blog", "user", "country"}

\* The slice [:10] of the top query.
TopLimit == 10

\* Blog.title; the titles are taken to differ from blog to blog.
TitleOf(b) == ToString(b)

\* config[top_type][0]: blog__title, blog__author__username or country__code.
TopGroupOf(kind, e) ==
    CASE kind = "blog" -> TitleOf(e.blog)
      [] kind = "user" -> AuthorOf(e.blog)
      [] kind = "country" -> e.country

\* values(x=F(group_field)).annotate(y=Count("id"), z=z_metric): z counts the
\* distinct countries of a blog (a null country is not counted) or the distinct
\* blogs of a user or a country.
TopRows(evs, kind, f) ==
    LET sel == {e \in evs : MatchEvent(e, f)}
        grp(g) == {e \in sel : TopGroupOf(kind, e) = g}
    IN  { [x |-> g, y |-> Cardinality(grp(g)),
           z |-> IF kind = "blog"
                 THEN Cardinality({e.country : e \in grp(g)} \ {NULL})
                 ELSE Cardinality({e.blog : e \in grp(g)})]
          : g \in {TopGroupOf(kind, e) : e \in sel} }

RECURSIVE OrderedByY(_)
\* order_by("-y"): the lists of the rows with y not increasing; rows with
\* equal y come in any order.
OrderedByY(rows) ==
    IF rows = {} THEN {<<>>}
    ELSE LET first == {r \in rows : \A o \in rows : r.y >= o.y}
         IN  UNION {{<<r>> \o rest : rest \in OrderedByY(rows \ {r})} : r \in first}

\* A variant without the slice.
Unsliced(list) == list

\* [:10]
TopSlice(list) ==
    IF Len(list) <= TopLimit THEN list ELSE SubSeq(list, 1, TopLimit)

\* AnalyticsService.get_top_analytics(top_type, filters).
\* up: the cache backend answers during the call.
TopAnalytics(kind, f, up) ==
    LET key == CacheKey("top", kind, f)
    IN  IF ~up
        THEN /\ resp' = Failed("top")
             /\ UNCHANGED cache
        ELSE IF key \in DOMAIN cache /\ cache[key] # <<>>
        THEN /\ resp' = Answer("top", kind, f, TRUE, cache[key], "none", {})
             /\ UNCHANGED cache
        ELSE \E list \in OrderedByY(TopRows(events, kind, f)) :
                 /\ cache' \in CacheSet(cache, key, TopSlice(list))
                 /\ resp' = Answer("top", kind, f, FALSE, TopSlice(list), "none", {})

TopQuery ==
    /\ \E up \in BOOLEAN : TopAnalytics(ask.type, ask.filters, up)
    /\ UNCHANGED <<events, summaries, lock, advisory, cacheUp, postgres, useHLL,
                   redisUp, hll, run, ask>>

\* The views of blog b in a table of n blogs: shape 1 gives b views, shape 2
\* n + 1 - b views, shape 3 the same number to every two blogs.
ViewsOf(shape, n, b) ==
    CASE shape = 1 -> b
      [] shape = 2 -> n + 1 - b
      [] shape = 3 -> (b + 1) \div 2

\* A BlogView table in which blogs 1..n have views, odd blogs from US and even
\* blogs without a country.
TopTable(shape, n) ==
    UNION {{[blog |-> b, country |-> IF b % 2 = 1 THEN "US" ELSE NULL, ts |-> 0,
             k |-> i] : i \in 1..ViewsOf(shape, n, b)} : b \in 1..n}

TopTables == {TopTable(shape, n) : shape \in 1..3, n \in 0..MaxTopBlogs}

\* The filter dicts the top query is called with.
TopFilters ==
    {NoFilters,
     [NoFilters EXCEPT !.country_codes = {"US"}],
     [NoFilters EXCEPT !.exclude_country_codes = {"US"}],
     [NoFilters EXCEPT !.author_username = "bob"],
     [NoFilters EXCEPT !.blog_id = 1]}

TopNext ==
    \/ TopQuery
    \/ CacheExpire

TopInit ==
    /\ events \in TopTables
    /\ summaries = {}
    /\ lock = FALSE
    /\ advisory = 0
    /\ cacheUp = TRUE
    /\ postgres = FALSE
    /\ useHLL = FALSE
    /\ redisUp = TRUE
    /\ hll = <<>>
    /\ run = [r \in Runs |-> IdleRun]
    /\ cache = <<>>
    /\ ask \in [type : TopTypes, filters : TopFilters]
    /\ resp = NoResp

SpecTop == TopInit /\ [][TopNext]_vars

(***************************************************************************)
(* SpecRoute: the grouped and the top endpoint, posted to with valid and   *)
(* invalid path arguments.                                                 *)
(***************************************************************************)
\* TopAnalyticsView.post(request, top_type).
PostTop ==
    /\ LET d == Dispatch(TopTypes, ask.type, ask.data)
       IN  IF d.status # "ok"
           THEN /\ resp' = Refused("post_top", d)
                /\ UNCHANGED cache
           ELSE \E up \in BOOLEAN : TopAnalytics(ask.type, AsFilters(d.data), up)
    /\ UNCHANGED <<events, summaries, lock, advisory, cacheUp, postgres, useHLL,
                   redisUp, hll, run, ask>>

\* The path arguments <str:object_type> and <str:top_type> take any string.
PathArgs == ObjectTypes \cup TopTypes \cup {"post"}

\* The request bodies without range, start_date and end_date.
RouteBodies ==
    {d \in RequestSpecs : DOMAIN d \cap {"range", "start_date", "end_date"} = {}}

RouteNext ==
    \/ QueryPrecalc
    \/ PostGrouped
    \/ PostTop

RouteInit ==
    /\ events \in EventSets(1)
    /\ summaries = {}
    /\ lock = FALSE
    /\ advisory = 0
    /\ cacheUp = TRUE
    /\ postgres = FALSE
    /\ useHLL = FALSE
    /\ redisUp = TRUE
    /\ hll = <<>>
    /\ run = [r \in Runs |-> IdleRun]
    /\ cache = <<>>
    /\ ask \in [type : PathArgs, data : RouteBodies]
    /\ resp = NoResp

SpecRoute == RouteInit /\ [][RouteNext]_vars

(***************************************************************************)
(* SpecKey: AnalyticsService._generate_cache_key over dicts whose fields   *)
(* were inserted in any order.  CacheKey above is this key for the dict    *)
(* taken as a mapping.                                                     *)
(***************************************************************************)
\* The fields of a filter dict in the order sort_keys=True gives them.
FieldNames ==
    <<"author_username", "blog_id", "compare", "country_codes", "end_date",
      "exclude_country_codes", "range", "start_date", "year">>

\* A dict keeps the order its fields were inserted in: a list of
\* <<field, value>> with no field twice.
OrderedDicts ==
    LET pairs == {<<"year", y>> : y \in Years}
                 \cup {<<"country_codes", cc>> : cc \in {{}, Codes}}
                 \cup {<<"author_username", a>> : a \in Authors}
    IN  {d \in UNION {[1..n -> pairs] : n \in 0..3} :
            \A i, j \in DOMAIN d : i # j => d[i][1] # d[j][1]}

\* A variant of json.dumps without sort_keys.
DumpsUnsorted(d) == d

\* json.dumps(d, sort_keys=True, default=str): the items in the order of
\* their field names, each value written out.
Dumps(d) ==
    LET rank(it) == CHOOSE i \in DOMAIN FieldNames : FieldNames[i] = it[1]
        items == {d[i] : i \in DOMAIN d}
    IN  [k \in 1..Len(d) |->
            CHOOSE it \in items :
                Cardinality({o \in items : rank(o) < rank(it)}) = k - 1]

\* _generate_cache_key(prefix, type=type, filters=d): the payload has the
\* keys "filters" and "type" in this order; the md5 digest of the payload is
\* taken to differ for different payloads.
GenerateCacheKey(prefix, type, d) == <<"analytics", prefix, <<Dumps(d), type>>>>

\* Two calls of one endpoint with one type: the first with the dict of ask,
\* the second with any dict.
KeyCalls ==
    /\ \E d \in OrderedDicts :
          resp' = [op |-> "cache_key", filters |-> d,
                   first |-> GenerateCacheKey(ask.prefix, ask.type, ask.filters),
                   second |-> GenerateCacheKey(ask.prefix, ask.type, d)]
    /\ UNCHANGED <<events, summaries, lock, advisory, cacheUp, postgres, useHLL,
                   redisUp, hll, run, cache, ask>>

KeyInit ==
    /\ events = {}
    /\ summaries = {}
    /\ lock = FALSE
    /\ advisory = 0
    /\ cacheUp = TRUE
    /\ postgres = FALSE
    /\ useHLL = FALSE
    /\ redisUp = TRUE
    /\ hll = <<>>
    /\ run = [r \in Runs |-> IdleRun]
    /\ cache = <<>>
    /\ ask \in [prefix : {"grouped_fast", "top"}, type : ObjectTypes,
                 filters : OrderedDicts]
    /\ resp = NoResp

SpecKey == KeyInit /\ [][KeyCalls]_vars

(***************************************************************************)
(* SpecGran: the granularity AnalyticsService.get_performance_analytics    *)
(* chooses for the span of the matching views.                             *)
(***************************************************************************)
\* (max_date - min_date).days: the whole days between two instants.
SpanDays(min_date, max_date) == (max_date - min_date) \div TicksPerDay

\* A variant whose thresholds are reached at 365 and at 30 days.
GranularityFrom(span, compare) ==
    LET days == IF span <= 0 THEN 1 ELSE span
    IN  IF compare # NULL THEN compare
        ELSE IF days >= 365 THEN "month"
        ELSE IF days >= 30 THEN "week"
        ELSE "day"

\* gran: filters["compare"] when it is given, else by the span in days, a
\* span of 0 days taken as 1.
Granularity(span, compare) ==
    LET days == IF span <= 0 THEN 1 ELSE span
    IN  IF compare # NULL THEN compare
        ELSE IF days > 365 THEN "month"
        ELSE IF days > 30 THEN "week"
        ELSE "day"

\* The instants of the days around the thresholds.
SpanTimes ==
    {d * TicksPerDay + o : d \in {0, 1, 30, 31, 365, 366}, o \in 0..(TicksPerDay - 1)}

\* The lines from the aggregate of min and max to the choice of gran.
ChooseGranularity ==
    /\ resp' = [op |-> "granularity",
                days |-> SpanDays(ask.min, ask.max),
                gran |-> Granularity(SpanDays(ask.min, ask.max), ask.compare)]
    /\ UNCHANGED <<events, summaries, lock, advisory, cacheUp, postgres, useHLL,
                   redisUp, hll, run, cache, ask>>

\* The earliest and the latest matching view and the compare of the filter.
GranInit ==
    /\ events = {}
    /\ summaries = {}
    /\ lock = FALSE
    /\ advisory = 0
    /\ cacheUp = TRUE
    /\ postgres = FALSE
    /\ useHLL = FALSE
    /\ redisUp = TRUE
    /\ hll = <<>>
    /\ run = [r \in Runs |-> IdleRun]
    /\ cache = <<>>
    /\ ask \in {a \in [min : SpanTimes, max : SpanTimes, compare : Ranges \cup {NULL}] :
                    a.min <= a.max}
    /\ resp = NoResp

SpecGran == GranInit /\ [][ChooseGranularity]_vars

(***************************************************************************)
(* SpecCold: the fast query before and after the first runs of the         *)
(* command.  ask.trail records how far the calls have come: "cold" after a *)
(* call that returned the cold-start list, "ran" when a run has then       *)
(* filled the summary table, "after" when the next call has returned.      *)
(***************************************************************************)
ColdFast ==
    /\ \E up \in BOOLEAN : GroupedFast(ask.type, ask.filters, up, TRUE, {})
    /\ ask' = [ask EXCEPT !.trail =
                  IF resp'.status = "error" THEN ask.trail
                  ELSE IF resp'.status = "cold" THEN "cold"
                  ELSE IF ask.trail = "ran" THEN "after"
                  ELSE "none"]
    /\ UNCHANGED <<events, summaries, lock, advisory, cacheUp, postgres, useHLL,
                   redisUp, hll, run>>

ColdPrecalc ==
    /\ \E n \in 0..MaxDaysOpt : Precalc(FALSE, FALSE, n, "none")
    /\ ask' = [ask EXCEPT !.trail =
                  IF ask.trail \in {"cold", "ran"} /\ resp'.op = "precalc"
                     /\ summaries' # {}
                  THEN "ran"
                  ELSE IF ask.trail = "cold" THEN "cold" ELSE "none"]
    /\ UNCHANGED <<events, advisory, cacheUp, postgres, useHLL, redisUp, run, cache>>

ColdNext ==
    \/ ColdPrecalc
    \/ ColdFast
    \/ QueryLive
    \/ CacheExpire

ColdInit ==
    /\ events \in EventSets(MaxEvents)
    /\ summaries = {}
    /\ lock = FALSE
    /\ advisory = 0
    /\ cacheUp = TRUE
    /\ postgres = FALSE
    /\ useHLL = FALSE
    /\ redisUp = TRUE
    /\ hll = <<>>
    /\ run = [r \in Runs |-> IdleRun]
    /\ cache = <<>>
    /\ ask \in [type : ObjectTypes, filters : FilterSpecs, trail : {"none"}]
    /\ resp = NoResp

SpecCold == ColdInit /\ [][ColdNext]_vars

(***************************************************************************)
(* SpecPerf: AnalyticsService.get_performance_analytics over the views and *)
(* the creation times of the blogs.                                        *)
(***************************************************************************)
\* TruncDay and TruncYear: the first day of the period an instant lies in.
\* Weeks and months are not part of this calendar.
Period(gran, ts) ==
    CASE gran = "day" -> DateOf(ts)
      [] gran = "year" -> (YearOf(DateOf(ts)) - 1) * DaysPerYear

\* get_performance_analytics on a cache miss with matching views sel:
\* views_map, blogs_by_period under the metric, the periods of both in
\* ascending order, and the growth of each period over the one before.
\* created[b]: Blog.created_at of blog b.
PerfData(sel, f, compare, metric, created) ==
    LET min_date == CHOOSE t \in {e.ts : e \in sel} : \A e \in sel : t <= e.ts
        max_date == CHOOSE t \in {e.ts : e \in sel} : \A e \in sel : t >= e.ts
        gran == Granularity(SpanDays(min_date, max_date), compare)
        blog_qs == {b \in Blogs : GivenStr(f.author_username)
                                     => AuthorOf(b) = f.author_username}
        views(p) == Cardinality({e \in sel : Period(gran, e.ts) = p})
        blogs(p) == IF metric = "created"
                    THEN Cardinality({b \in blog_qs : Period(gran, created[b]) = p})
                    ELSE Cardinality({e.blog : e \in {v \in sel : Period(gran, v.ts) = p}})
        periods == {Period(gran, e.ts) : e \in sel}
                   \cup (IF metric = "created"
                         THEN {Period(gran, created[b]) : b \in blog_qs} ELSE {})
        all_periods == [k \in 1..Cardinality(periods) |->
                           CHOOSE p \in periods :
                               Cardinality({q \in periods : q < p}) = k - 1]
    IN  [k \in DOMAIN all_periods |->
            [x |-> <<all_periods[k], blogs(all_periods[k])>>,
             y |-> views(all_periods[k]),
             z |-> Growth(views(all_periods[k]),
                          IF k = 1 THEN 0 ELSE views(all_periods[k - 1]))]]

\* AnalyticsService.get_performance_analytics(filters), compare being
\* filters["compare"] and metric IDEEZA_PERFORMANCE_X_METRIC.
\* up: the cache backend answers during the call.
Performance(f, compare, metric, created, up) ==
    LET key == CacheKey("perf", NULL, <<f, compare>>)
        sel == {e \in events : MatchEvent(e, f)}
    IN  IF ~up
        THEN /\ resp' = Failed("perf")
             /\ UNCHANGED cache
        ELSE IF key \in DOMAIN cache /\ cache[key] # <<>>
        THEN /\ resp' = Answer("perf", NULL, f, TRUE, cache[key], "none", {})
             /\ UNCHANGED cache
        ELSE IF sel = {}
        THEN /\ resp' = Answer("perf", NULL, f, FALSE, <<>>, "none", {})
             /\ UNCHANGED cache
        ELSE LET data == PerfData(sel, f, compare, metric, created)
             IN  /\ cache' \in CacheSet(cache, key, data)
                 /\ resp' = Answer("perf", NULL, f, FALSE, data, "none", {})

PerfQuery ==
    /\ \E up \in BOOLEAN :
          Performance(ask.filters, ask.compare, ask.metric, ask.created, up)
    /\ UNCHANGED <<events, summaries, lock, advisory, cacheUp, postgres, useHLL,
                   redisUp, hll, run, ask>>

\* The views were ingested before.  Under the metric "created" the blogs
\* were created at the first or at the last instant.
PerfInit ==
    /\ events \in EventSets(MaxEvents)
    /\ summaries = {}
    /\ lock = FALSE
    /\ advisory = 0
    /\ cacheUp = TRUE
    /\ postgres = FALSE
    /\ useHLL = FALSE
    /\ redisUp = TRUE
    /\ hll = <<>>
    /\ run = [r \in Runs |-> IdleRun]
    /\ cache = <<>>
    /\ ask \in [filters : FilterSpecs, compare : {NULL, "day", "year"},
                 metric : {"viewed"}, created : {[b \in Blogs |-> 0]}]
                \cup [filters : FilterSpecs, compare : {NULL, "day", "year"},
                      metric : {"created"}, created : [Blogs -> {0, MaxTs}]]
    /\ resp = NoResp

SpecPerf == PerfInit /\ [][PerfQuery]_vars

(***************************************************************************)
(* SpecMix: the four cached queries called in turn with different types    *)
(* and filters over one cache; the views were ingested before, and the     *)
(* command summarises all of them.                                         *)
(***************************************************************************)
\* The filter dicts of the calls.
MixFilters ==
    {NoFilters,
     [NoFilters EXCEPT !.country_codes = {"US"}],
     [NoFilters EXCEPT !.author_username = "alice"]}

MixLive ==
    /\ \E type \in ObjectTypes, f \in MixFilters : GroupedLive(type, f, TRUE)
    /\ UNCHANGED <<events, summaries, lock, advisory, cacheUp, postgres, useHLL,
                   redisUp, hll, run, ask>>

MixFast ==
    /\ \E type \in ObjectTypes, f \in MixFilters : GroupedFast(type, f, TRUE, TRUE, {})
    /\ UNCHANGED <<events, summaries, lock, advisory, cacheUp, postgres, useHLL,
                   redisUp, hll, run, ask>>

MixTop ==
    /\ \E kind \in TopTypes, f \in MixFilters : TopAnalytics(kind, f, TRUE)
    /\ UNCHANGED <<events, summaries, lock, advisory, cacheUp, postgres, useHLL,
                   redisUp, hll, run, ask>>

\* The metric is "viewed"; the filter dict has no compare.
MixPerf ==
    /\ \E f \in MixFilters : Performance(f, NULL, "viewed", [b \in Blogs |-> 0], TRUE)
    /\ UNCHANGED <<events, summaries, lock, advisory, cacheUp, postgres, useHLL,
                   redisUp, hll, run, ask>>

\* python manage.py precalculate_stats
MixPrecalc ==
    /\ Precalc(FALSE, FALSE, 0, "none")
    /\ UNCHANGED <<events, advisory, cacheUp, postgres, useHLL, redisUp, run, cache,
                   ask>>

MixNext ==
    \/ MixPrecalc
    \/ MixLive
    \/ MixFast
    \/ MixTop
    \/ MixPerf
    \/ CacheExpire

MixInit ==
    /\ events \in EventSets(MaxEvents)
    /\ summaries = {}
    /\ lock = FALSE
    /\ advisory = 0
    /\ cacheUp = TRUE
    /\ postgres = FALSE
    /\ useHLL = FALSE
    /\ redisUp = TRUE
    /\ hll = <<>>
    /\ run = [r \in Runs |-> IdleRun]
    /\ cache = <<>>
    /\ ask = NoAsk
    /\ resp = NoResp

SpecMix == MixInit /\ [][MixNext]_vars

(***************************************************************************)
(* Properties of the command under concurrent runs (SpecJob).              *)
(***************************************************************************)
\* Between lock acquisition and lock release.
Active(r) == run[r].pc \in {"read", "existing", "build", "persist", "release"}

\* C1: among the runs started without --force while the cache answered, at most
\* one is between lock acquisition and release, and a run whose cache.add
\* found the lock taken by another run does not go on to read or write.
C1_OneActiveRun ==
    /\ \A r1, r2 \in Runs :
          (r1 # r2 /\ run[r1].cache_ok /\ run[r2].cache_ok /\ Active(r1))
              => ~Active(r2)
    /\ \A r \in Runs :
          (run[r].cache_ok /\ ~run[r].cache_lock) => ~Active(r)

\* C2: at most one DailyAnalyticsSummary row per (date, country, author), a
\* null country included, whatever the interleaving of the runs.
C2_OneRowPerKey ==
    \A s1, s2 \in summaries : RowKey(s1) = RowKey(s2) => s1 = s2

(***************************************************************************)
(* Properties of one run of the command (SpecBatch).                       *)
(***************************************************************************)
EventsOfKey(k) == {e \in events : KeyOf(e) = k}

C4_SecondRunChangesNothing ==
    [][(resp.op = "precalc" /\ ~resp.dry /\ resp'.op = "precalc"
          /\ resp'.start_date = resp.start_date)
        => (summaries' = summaries /\ resp'.created = 0)]_vars

\* A second run over the same range that found rows to overwrite.
C4_Witness ==
    resp.op = "precalc" /\ resp.rerun /\ ~resp.dry /\ resp.updated >= 2 /\ resp.created = 0

(***************************************************************************)
(* Properties of the grouped queries (SpecQuery, SpecHll).                 *)
(***************************************************************************)
\* The last call was the fast query and it computed its answer from the table.
FastComputed == resp.op = "grouped_fast" /\ resp.status = "ok" /\ ~resp.cached

\* The summary rows that match the filters of the last call and lie in group g.
RowsOfGroup(g) ==
    {s \in summaries : /\ MatchSummary(s, resp.filters)
                       /\ GroupOf(resp.type, s.country, s.author) = g}

UnionOfGroup(g) == UNION {s.blog_ids : s \in RowsOfGroup(g)}

Summarised ==
    \A k \in {KeyOf(e) : e \in events} :
        \E s \in summaries :
            RowKey(s) = k /\ s.total_views = Cardinality(EventsOfKey(k))

XZ(data) == {<<d.x, d.z>> : d \in data}

\* C6: when every event is summarised and the answer is not taken from the
\* cache, the fast query returns the groups x and the counts z that the live
\* query computes for the same object_type and filters.
C6_FastAgreesWithLive ==
    (FastComputed /\ Summarised) =>
        XZ(resp.data) = XZ(LiveData(events, resp.type, resp.filters))

C8_SuccessfulReadIsReported ==
    (FastComputed /\ resp.hll = "conn") =>
        \A d \in resp.data :
            d.x \notin resp.failed =>
                d.y = PfCount(hll, {HllKey(s.date, s.country, s.author) :
                                       s \in RowsOfGroup(d.x)})

\* C9: whenever the summary table is empty, a fast query that answers answers
\* the empty list, whatever happened before.
C9_EmptyTableEmptyAnswer ==
    (resp.op = "grouped_fast" /\ resp.status # "error" /\ summaries = {}) =>
        resp.data = {}

\* C10: a grouped query never fails because the cache does not answer.
C10_QueriesSurviveCacheOutage ==
    resp.op \in {"grouped", "grouped_fast"} => resp.status # "error"

(***************************************************************************)
(* Failures (SpecFault) and dry runs (SpecBatch) of the command.           *)
(***************************************************************************)
\* C11: when the transaction of a run fails, be it at the inserts or after them
\* at the updates, the summary table is exactly what it was before the run.
C11_FailedPersistLeavesStore ==
    [][resp'.op = "precalc_failed" => summaries' = summaries]_vars

\* bulk_update raised after bulk_create had inserted a row in the transaction.
C11_Witness ==
    resp.op = "precalc_failed" /\ resp.fault = "update" /\ resp.created >= 1

\* The keys with a view on or after day D.
KeysFrom(D) == {KeyOf(e) : e \in InRange(events, D)}

\* C16: a run with --dry-run leaves the summary table as it was, and reports
\* as created the keys that have no row and as updated the keys that have one.
C16_DryRunLeavesStore ==
    [][(resp'.op = "precalc" /\ resp'.dry) =>
          /\ summaries' = summaries
          /\ resp'.created =
                Cardinality({k \in KeysFrom(resp'.start_date) :
                                ~\E s \in summaries : RowKey(s) = k})
          /\ resp'.updated =
                Cardinality({k \in KeysFrom(resp'.start_date) :
                                \E s \in summaries : RowKey(s) = k})]_vars

\* A dry run that had a row to insert and a row to overwrite.
C16_Witness ==
    resp.op = "precalc" /\ resp.dry /\ resp.created >= 1 /\ resp.updated >= 1

(***************************************************************************)
(* The lock around a run of the command (SpecJob).                         *)
(***************************************************************************)
\* C12: when the transaction of a run fails, the cache lock that run set is
\* deleted (the cache answering) and its advisory lock is given back.
C12_FailedCommitReleasesLock ==
    [][\A r \in Runs :
          (run[r].pc = "persist" /\ run'[r].pc = "crashed") =>
              /\ (run[r].cache_lock /\ cacheUp) => ~lock'
              /\ run[r].advisory_lock => advisory' # r]_vars

\* C13: a run without --force that set the cache lock has deleted it when it
\* ends without error (the cache answering), the exit without events included.
C13_LockReleasedOnExit ==
    [][\A r \in Runs :
          (run[r].pc # "done" /\ run'[r].pc = "done"
             /\ ~run[r].force /\ run[r].cache_lock /\ cacheUp) => ~lock']_vars

\* C14: an invoked run always goes on to the date range, a forced one without
\* touching the cache lock or the advisory lock; and the release step always
\* ends the run normally, whether the cache answers or not.
C14_NeverBlocksOrAborts ==
    [][\A r \in Runs :
          /\ (run[r].pc = "idle" /\ run'[r].pc # "idle") =>
                /\ run'[r].pc = "read"
                /\ run'[r].force =>
                      /\ lock' = lock /\ advisory' = advisory
                      /\ ~run'[r].cache_ok /\ ~run'[r].advisory_lock
          /\ (run[r].pc = "release" /\ run'[r].pc # "release") =>
                run'[r].pc = "done"]_vars

\* A run without --force goes on although the cache does not answer and the
\* database has no advisory locks.
C14_Witness ==
    \E r \in Runs :
        /\ run[r].pc = "read" /\ ~run[r].force
        /\ ~run[r].cache_ok /\ ~run[r].lock_acquired /\ ~postgres /\ ~cacheUp

\* C15: in every summary row, unique_blogs is the number of distinct blog_ids.
C15_UniqueBlogsIsSizeOfBlogIds ==
    \A s \in summaries : s.unique_blogs = Cardinality(s.blog_ids)

(***************************************************************************)
(* Validation and the time filters (SpecApi).                              *)
(***************************************************************************)
\* The request carries country_codes or exclude_country_codes as an empty list.
EmptyListGiven(data) ==
    \/ "country_codes" \in DOMAIN data /\ data["country_codes"] = {}
    \/ "exclude_country_codes" \in DOMAIN data /\ data["exclude_country_codes"] = {}

\* C17: a request with an empty country_codes or exclude_country_codes list is
\* answered with the validation error; the query is not run and the cache is
\* left as it was.
C17_EmptyListRejected ==
    [][(EmptyListGiven(ask.data) /\ resp'.op \in {"post_grouped", "grouped_fast"}) =>
          /\ resp' = Rejected(IF "country_codes" \in DOMAIN ask.data
                                  /\ ask.data["country_codes"] = {}
                              THEN "country_codes" ELSE "exclude_country_codes")
          /\ cache' = cache]_vars

\* An empty list was rejected while the summary table had rows to aggregate.
C17_Witness ==
    /\ resp.op = "post_grouped" /\ resp.status = "invalid"
    /\ EmptyListGiven(ask.data) /\ summaries # {}

\* The last request was validated and answered by the fast query.
Answered == resp.op = "grouped_fast" /\ resp.status = "ok"

\* C18: when the request carries a range, the filters the query gets have
\* start_date = now - the range's days (1, 7, 30, 365) and end_date = now,
\* whatever start_date and end_date the request carried.
C18_RangeOverridesDates ==
    (Answered /\ "range" \in DOMAIN ask.data) =>
        /\ resp.filters.start_date =
              Now - TicksPerDay * (CASE ask.data["range"] = "day" -> 1
                                     [] ask.data["range"] = "week" -> 7
                                     [] ask.data["range"] = "month" -> 30
                                     [] ask.data["range"] = "year" -> 365)
        /\ resp.filters.end_date = Now

\* A range next to an explicit start_date and end_date, both different from
\* what the range gives.
C18_Witness ==
    /\ Answered
    /\ {"range", "start_date", "end_date"} \subseteq DOMAIN ask.data
    /\ ask.data["start_date"] # resp.filters.start_date
    /\ ask.data["end_date"] # resp.filters.end_date

\* The filters without start_date and end_date.
TimeFree(f) == [f EXCEPT !.start_date = NoTime, !.end_date = NoTime]

\* The (date, country, author) a summary row can have.
RowShapes == [date : 0..Today, country : Countries, author : Authors]

\* C19: when the filters carry a year, the predicate on events and the
\* predicate on summary rows select within that year only, and select what they
\* select without start_date and end_date, a range's dates included.
C19_YearTakesPrecedence ==
    (Answered /\ resp.filters.year # 0) =>
        /\ \A e \in EventTypes :
              /\ MatchEvent(e, resp.filters) = MatchEvent(e, TimeFree(resp.filters))
              /\ MatchEvent(e, resp.filters) => YearOf(DateOf(e.ts)) = resp.filters.year
        /\ \A s \in RowShapes :
              /\ MatchSummary(s, resp.filters) = MatchSummary(s, TimeFree(resp.filters))
              /\ MatchSummary(s, resp.filters) => YearOf(s.date) = resp.filters.year

\* A year next to a start_date: an event of that year before the start_date is
\* selected; and a year next to a range has been answered too.
C19_Witness ==
    /\ Answered /\ resp.filters.year # 0
    /\ "start_date" \in DOMAIN ask.data
    /\ \E e \in EventTypes :
          MatchEvent(e, resp.filters) /\ e.ts < resp.filters.start_date

(***************************************************************************)
(* Growth of the performance series (SpecGrowth).                          *)
(***************************************************************************)
\* The views of the period before period i, 0 before the first.
PrevViews(i) == IF i = 1 THEN 0 ELSE ask[i - 1]

\* C20 (as stated): the first record has z = 0, a record after a period without
\* views has z = 0, and every other record has z = (views - previous views) /
\* previous views * 100 exactly.
C20_GrowthIsExactPercentage ==
    \A i \in 1..Len(resp.results) :
        IF PrevViews(i) = 0
        THEN resp.results[i].z = 0
        ELSE resp.results[i].z * PrevViews(i) = (ask[i] - PrevViews(i)) * 10000

\* C20 (amended): the first record has z = 0, a record after a period without
\* views has z = 0, and every other record has z = (views - previous views) /
\* previous views * 100 rounded to two decimals: z is a whole number of
\* hundredths at most half a hundredth away from the exact percentage.  Views
\* 0, 100, 50 give growth 0, 0, -50.
C20_GrowthIsRoundedPercentage ==
    /\ \A i \in 1..Len(resp.results) :
          LET z == resp.results[i].z
              exact == (ask[i] - PrevViews(i)) * 10000
              off == z * PrevViews(i) - exact
          IN  IF PrevViews(i) = 0
              THEN z = 0
              ELSE 2 * off <= PrevViews(i) /\ 2 * off >= 0 - PrevViews(i)
    /\ (ask = <<0, 100, 50>> /\ Len(resp.results) = 3) =>
          /\ resp.results[1].z = 0
          /\ resp.results[2].z = 0
          /\ resp.results[3].z = 0 - 5000

\* A finished series with a growth that is not a whole number of hundredths:
\* 3 views then 2 views give -33.33.
C20_Witness ==
    /\ Len(ask) >= 2 /\ Len(resp.results) = Len(ask)
    /\ ask[1] = 3 /\ ask[2] = 2
    /\ resp.results[2].z = 0 - 3333

(***************************************************************************)
(* The top query (SpecTop).                                                *)
(***************************************************************************)
\* C21: for every kind and every filter, the top query returns at most 10
\* records, and no record has a larger y than a record before it.
C21_TopTenDescending ==
    (resp.op = "top" /\ resp.status = "ok") =>
        /\ Len(resp.data) <= 10
        /\ \A i, j \in 1..Len(resp.data) : i < j => resp.data[i].y >= resp.data[j].y

\* More than 10 blogs matched the filter, with different numbers of views; 10
\* records were computed and returned.
C21_Witness ==
    /\ resp.op = "top" /\ resp.status = "ok" /\ ~resp.cached
    /\ Cardinality(TopRows(events, resp.type, resp.filters)) > 10
    /\ Len(resp.data) = 10
    /\ resp.data[1].y > resp.data[10].y

(***************************************************************************)
(* The path arguments of the endpoints (SpecRoute).                        *)
(***************************************************************************)
\* C22: a grouped request whose dimension is not country or user, and a top
\* request whose kind is not blog, user or country, gets the error about the
\* type, whatever its body, and leaves the cache as it was; the services
\* answer only for the dimensions and kinds of their endpoint.
C22_BadTypeRejectedFirst ==
    [][/\ (resp'.op = "post_grouped" /\ ask.type \notin {"country", "user"})
            => (resp'.status = "bad_type" /\ cache' = cache)
       /\ (resp'.op = "post_top" /\ ask.type \notin {"blog", "user", "country"})
            => (resp'.status = "bad_type" /\ cache' = cache)
       /\ resp'.op = "grouped_fast" => ask.type \in {"country", "user"}
       /\ resp'.op = "top" => ask.type \in {"blog", "user", "country"}]_vars

\* A request with an empty country_codes list and a type that is invalid for
\* the endpoint was refused for its type, with summaries in the store.
C22_Witness ==
    /\ resp.op \in {"post_grouped", "post_top"}
    /\ resp.status = "bad_type"
    /\ EmptyListGiven(ask.data)
    /\ summaries # {}

(***************************************************************************)
(* The cache key (SpecKey).                                                *)
(***************************************************************************)
\* The dict as a mapping from fields to values.
MappingOf(d) == {d[i] : i \in DOMAIN d}

\* C23: two calls with the same prefix, the same type and filters that are
\* equal as mappings from fields to values get the same key, whatever order
\* the fields were inserted in.
C23_KeyIgnoresFieldOrder ==
    (resp.op = "cache_key" /\ MappingOf(resp.filters) = MappingOf(ask.filters))
        => resp.first = resp.second

\* The two calls carried the same three fields in different orders.
C23_Witness ==
    /\ resp.op = "cache_key"
    /\ Len(ask.filters) = 3
    /\ MappingOf(resp.filters) = MappingOf(ask.filters)
    /\ resp.filters # ask.filters
    /\ resp.first = resp.second

(***************************************************************************)
(* The granularity of the performance series (SpecGran).                   *)
(***************************************************************************)
\* C24: without a forced granularity the series is monthly when the earliest
\* and the latest matching view are more than 365 whole days apart, weekly when
\* they are more than 30 but not more than 365 whole days apart, and daily
\* otherwise, a span of 0 days included; a forced granularity is used
\* whatever the span.
C24_GranularityBySpan ==
    resp.op = "granularity" =>
        LET span == ask.max - ask.min
        IN  IF ask.compare # NULL THEN resp.gran = ask.compare
            ELSE IF span >= 366 * TicksPerDay THEN resp.gran = "month"
            ELSE IF span >= 31 * TicksPerDay THEN resp.gran = "week"
            ELSE resp.gran = "day"

\* A span of exactly 365 whole days without a forced granularity was bucketed
\* weekly.
C24_Witness ==
    /\ resp.op = "granularity"
    /\ ask.compare = NULL
    /\ resp.days = 365
    /\ resp.gran = "week"

(***************************************************************************)
(* The owner of the cache lock (SpecJob).                                  *)
(***************************************************************************)
\* C25: the release step of a run that did not set the cache lock itself (a
\* forced run, or a run whose cache.add did not succeed) leaves the lock entry
\* of another run that is still active in place.
C25_ReleaseKeepsForeignLock ==
    [][\A r \in Runs :
          (/\ run[r].pc = "release" /\ run'[r].pc = "done"
           /\ ~run[r].cache_lock
           /\ lock
           /\ \E o \in Runs \ {r} : Active(o) /\ run[o].cache_lock)
              => lock']_vars

(***************************************************************************)
(* The cache shared by the queries (SpecMix).                              *)
(***************************************************************************)
\* C26: the tables do not change between the calls of SpecMix (but for the
\* first run of the command, before which the fast query caches nothing), so
\* a value that an operation stored for a type and a filter is the value that
\* operation computes for that type and filter.  An answer taken from the
\* cache is such a value for the operation, type and filter of the call, never
\* the value of another operation, type or filter.
C26_HitIsOwnResult ==
    (resp.op \in {"grouped", "grouped_fast", "top", "perf"} /\ resp.status = "ok"
       /\ resp.cached) =>
        CASE resp.op = "grouped" ->
                 resp.data = LiveData(events, resp.type, resp.filters)
          [] resp.op = "grouped_fast" ->
                 resp.data = FastData(summaries, hll, resp.type, resp.filters,
                                      FALSE, TRUE, {})
          [] resp.op = "top" ->
                 \E list \in OrderedByY(TopRows(events, resp.type, resp.filters)) :
                     resp.data = TopSlice(list)
          [] resp.op = "perf" ->
                 resp.data = PerfData({e \in events : MatchEvent(e, resp.filters)},
                                      resp.filters, NULL, "viewed", [b \in Blogs |-> 0])

\* A cache hit while the values of the other operations, types and filters
\* differ from the answer: the live query for the other type, the top query
\* for the same type and the same query for another filter give other data.
C26_Witness ==
    /\ resp.op = "grouped" /\ resp.status = "ok" /\ resp.cached
    /\ resp.type = "country"
    /\ resp.data # LiveData(events, "user", resp.filters)
    /\ \E f \in MixFilters : resp.data # LiveData(events, "country", f)
    /\ \E d \in resp.data : d.y # d.z

(***************************************************************************)
(* The buckets of the performance series (SpecPerf).                       *)
(***************************************************************************)
\* The days of a bucket of the answer.
BucketDays == IF ask.compare = "year" THEN DaysPerYear ELSE 1

\* C30: when the filter has a year or a start_date or end_date, every bucket of
\* the answer has an instant within that range, under both metrics, and the
\* buckets come in ascending order, one record per bucket.
C30_BucketsWithinRange ==
    (resp.op = "perf" /\ resp.status = "ok") =>
        /\ \A i \in DOMAIN resp.data :
              LET p == resp.data[i].x[1]
                  f == resp.filters
              IN  IF GivenInt(f.year)
                  THEN YearOf(p) = f.year
                  ELSE /\ GivenTime(f.start_date)
                            => (p + BucketDays) * TicksPerDay > f.start_date
                       /\ GivenTime(f.end_date) => p * TicksPerDay <= f.end_date
        /\ \A i, j \in DOMAIN resp.data :
              i < j => resp.data[i].x[1] < resp.data[j].x[1]

(***************************************************************************)
(* The fast query after a cold start (SpecCold).                           *)
(***************************************************************************)
\* C27: when the fast query was called on an empty summary table and a run of
\* the command has then filled the table, the next call with the same
\* arguments that returns does not take its answer from the cache: it returns
\* the groups of the summary rows its filter selects, which is not the empty
\* list when there are such rows.
C27_ColdStartNotServedLater ==
    [][(ask.trail = "ran" /\ ask'.trail = "after") =>
          /\ resp'.op = "grouped_fast" /\ resp'.status = "ok" /\ ~resp'.cached
          /\ resp'.data = FastData(summaries, hll, ask.type, ask.filters,
                                   FALSE, TRUE, {})
          /\ FastRows(summaries, ask.type, ask.filters) # {} => resp'.data # {}]_vars

\* The call after the cold start and the run returned groups.
C27_Witness ==
    /\ ask.trail = "after"
    /\ resp.op = "grouped_fast"
    /\ resp.data # {}

(***************************************************************************)
(* A dry run and the HLL backend (SpecDry).                                *)
(***************************************************************************)
\* C28: a run with --dry-run leaves every HLL structure as it was, also when
\* IDEEZA_USE_HLL is on and Redis answers.
C28_DryRunPublishesNothing ==
    [][(resp'.op = "precalc" /\ resp'.dry) => hll' = hll]_vars

(***************************************************************************)
(* The rows a run leaves alone (SpecLate).                                 *)
(***************************************************************************)
\* C29: a run with date lower bound D leaves every summary row dated before D
\* as it was, and no run deletes a row: every stored row is still stored
\* under its id and its key after the run, so the set of keys only grows.
C29_RunKeepsOlderRows ==
    [][resp'.op \in {"precalc", "precalc_failed", "precalc_nodata"} =>
          /\ resp'.op = "precalc" =>
                \A s \in summaries : s.date < resp'.start_date => s \in summaries'
          /\ \A s \in summaries :
                \E t \in summaries' : t.id = s.id /\ RowKey(t) = RowKey(s)
          /\ {RowKey(s) : s \in summaries} \subseteq {RowKey(s) : s \in summaries'}]_vars

\* A run that was not dry updated a row while a row dated before its lower
\* bound was stored.
C29_Witness ==
    /\ resp.op = "precalc" /\ ~resp.dry
    /\ resp.updated >= 1
    /\ \E s \in summaries : s.date < resp.start_date

====
